---- MODULE Spec2Model ----
(***************************************************************************)
(* PhishNet persistence layer and the requests above it.                    *)
(*                                                                         *)
(*   Spec         the connection/failover controller (server/db.ts), its   *)
(*                consumers (DatabaseStorage.setup/getDb) and the failure  *)
(*                injection harness (server/simulate-failure.ts).          *)
(*   StorageSpec  the storage contract as implemented by DatabaseStorage   *)
(*                (drizzle/PostgreSQL) and MongoStorage (mongoose).        *)
(*   FailureSpec  storage operations on tables that may be missing and     *)
(*                over a connection that may fail.                         *)
(*   BootstrapSpec  runs of the local schema bootstrapper                  *)
(*                (server/setup-local-db.ts).                              *)
(*   ProbeSpec    calls of the connection probe (testConnection).          *)
(*   ResetSpec    forgot-password and reset-password requests              *)
(*                (server/auth.ts).                                        *)
(*   CampaignSpec POST /api/campaigns (server/routes.ts).                  *)
(*   CascadeSpec  deletes of groups and campaigns and their dependents.    *)
(*   LockSpec     logins to one account and its lockout (server/auth.ts).  *)
(*   SessionSpec  the client's session timeout (lib/session-manager.ts).   *)
(*   MongoSpec    callers of the MongoDbConnection singleton               *)
(*                (server/mongodb.ts).                                     *)
(***************************************************************************)
EXTENDS Integers, Sequences, FiniteSets, TLC

(***************************************************************************)
(* Bounds                                                                  *)
(***************************************************************************)
\* DatabaseStorage instances that ask the controller for the handle
\* (the repository constructs three: storage.ts:893, auth.ts:16, routes.ts:6).
NumConsumers == 2
\* Runs of the local bootstrapper in one behaviour.
NumBootRuns == 2
\* Calls of testConnection in one behaviour (one setupDatabase run makes up
\* to three: cloud, local, local again after the bootstrap).
NumProbes == 3

(***************************************************************************)
(* Part I.  Connection / failover controller                               *)
(***************************************************************************)
VARIABLES
    connection,     \* db.ts:18   let connection: DatabaseConnection | null
    DATABASE_URL,   \* process.env.DATABASE_URL: "none" | "orig" | "invalid"
    hasLocalConfig, \* process.env.PGHOST && PGDATABASE && PGUSER
    envBackup,      \* content of .env.backup: << >> when the file is absent
    pc,             \* position of every asynchronous caller
    probeArg,       \* the connectionUrl of a caller's pending cloud testConnection
    result,         \* the DatabaseConnection a caller's setupDatabase returned
    events,         \* per caller: outcomes of the awaits of its setupDatabase run
    db              \* DatabaseStorage.db of every consumer

\* The module-level call `initializeDb()` (db.ts:138) is caller 0.
Module == 0
Consumers == 1..NumConsumers
Tasks == {Module} \cup Consumers

\* `null` of `connection` / `this.db`, as a record so that handles compare.
NoConnection == [by |-> -1, type |-> "none"]

\* A DatabaseConnection: every setupDatabase run constructs its own pool,
\* so a handle is identified by the run (caller) that built it.
Handle(t, kind) == [by |-> t, type |-> kind]

SetupPcs == {"probeCloud", "probeLocal", "bootstrap", "reprobeLocal"}
ReturnedPcs == {"initAssign", "getAssign", "assignDb", "done"}

\* setupDatabase, synchronous prefix: lines 50-57, then 60/67/100.
SetupStart(url, local) ==
    IF url # "none" THEN "probeCloud"
    ELSE IF local THEN "probeLocal"
    ELSE "failed"

\* Outcomes testConnection can have for a descriptor: the injected
\* descriptor names a nonexistent host; any other may or may not answer.
ProbeOutcomes(url) == IF url = "invalid" THEN {FALSE} ELSE BOOLEAN

\* What a setupDatabase run has observed when it reaches its first await:
\* line 55-57, no DATABASE_URL was configured.
StartEvents(url) == IF url = "none" THEN <<"noRemote">> ELSE << >>

AfterCloudProbe_AlwaysLocal(ok, local) ==
    IF local THEN "probeLocal" ELSE "failed"

\* setupDatabase lines 51-67 and 100: after `useCloud = await testConnection(..)`.
AfterCloudProbe(ok, local) ==
    IF ok THEN "initAssign"
    ELSE IF local THEN "probeLocal"
    ELSE "failed"

\* setupDatabase lines 70-85: after the first local probe.
AfterLocalProbe(ok) ==
    IF ok THEN "initAssign" ELSE "bootstrap"

AfterBootstrap_AlwaysReprobe(ok) ==
    "reprobeLocal"

\* setupDatabase lines 75-82: re-probe only when setupLocalDatabase returned true.
AfterBootstrap(ok) ==
    IF ok THEN "reprobeLocal" ELSE "failed"

\* setupDatabase lines 79, 85-99: after the second local probe.
AfterLocalReprobe(ok) ==
    IF ok THEN "initAssign" ELSE "failed"

ctrlVars == <<connection, DATABASE_URL, hasLocalConfig, envBackup, pc,
              probeArg, result, events, db>>

\* State of the storage layer (Part II).
VARIABLES
    backend,    \* "pg": DatabaseStorage, "mongo": MongoStorage
    tables,     \* per entity type, the set of stored rows / documents
    nextId,     \* per entity type, the next serial id / ObjectId
    now,        \* what `new Date()` and the column default NOW() read
    lastOp      \* the last contract call and what it returned to its caller

storeVars == <<backend, tables, nextId, now, lastOp>>

\* State of the optional-feature tables (Part III).
VARIABLES
    provisioned,    \* the optional tables that exist in the database
    featRows,       \* the rows of the optional tables
    out             \* outcome of the last call of Part III

failVars == <<provisioned, featRows, out>>

\* State of the local instance and of the runs of its bootstrapper (Part IV).
VARIABLES
    localTables,    \* tables that exist in the local instance
    orgCount,       \* rows of organizations
    adminCount,     \* rows of users (email admin@example.com)
    bpc,            \* position of every run of setupLocalDatabase
    bstart,         \* per run: was the instance provisioned and seeded at its start
    bmade,          \* per run: tables created and rows inserted by it
    bret            \* per run: "none" while running, then "true" or "false"

bootVars == <<localTables, orgCount, adminCount, bpc, bstart, bmade, bret>>

\* State of the calls of testConnection (Part V).
VARIABLES
    tpc,        \* position of every call
    testPool,   \* per call: "none", "open" or "ended"
    client,     \* per call: "none", "acquired" or "released"
    tfail,      \* per call: the step that failed, "none" if none did
    tret        \* per call: "none" while running, then what the caller got

probeVars == <<tpc, testPool, client, tfail, tret>>

\* The last call of the failure harness and what it returned.
VARIABLES harness

\* State of the application layer above the store, one record per part
\* (Parts VI to XI).
VARIABLES
    reset,      \* password reset tokens and the requests that use them
    campaigns,  \* the entities a campaign references, and the campaigns
    cascade,    \* groups, targets, campaigns and campaign results
    lock,       \* the lockout fields of one account and pending logins
    session,    \* the client session manager's timers
    mongo       \* the MongoDbConnection singleton and its callers

appVars == <<reset, campaigns, cascade, lock, session, mongo>>

\* What each part leaves alone.
outsideCtrlVars == <<storeVars, failVars, bootVars, probeVars, appVars>>
nonCtrlVars == <<outsideCtrlVars, harness>>
nonStoreVars == <<ctrlVars, failVars, bootVars, probeVars, harness, appVars>>
nonFailVars == <<ctrlVars, storeVars, bootVars, probeVars, harness, appVars>>
nonBootVars == <<ctrlVars, storeVars, failVars, probeVars, harness, appVars>>
nonProbeVars == <<ctrlVars, storeVars, failVars, bootVars, harness, appVars>>
coreVars == <<ctrlVars, storeVars, failVars, bootVars, probeVars, harness>>
nonResetVars == <<coreVars, campaigns, cascade, lock, session, mongo>>
nonCampaignVars == <<coreVars, reset, cascade, lock, session, mongo>>
nonCascadeVars == <<coreVars, reset, campaigns, lock, session, mongo>>
nonLockVars == <<coreVars, reset, campaigns, cascade, session, mongo>>
nonSessionVars == <<coreVars, reset, campaigns, cascade, lock, mongo>>
nonMongoVars == <<coreVars, reset, campaigns, cascade, lock, session>>

\* State after the modules are loaded: db.ts has run `initializeDb()` up to
\* its first await; no DatabaseStorage call has reached getDbConnection yet.
CtrlInit ==
    /\ connection = NoConnection
    /\ DATABASE_URL \in {"none", "orig"}
    /\ hasLocalConfig \in BOOLEAN
    /\ envBackup = << >>
    /\ pc = [t \in Tasks |->
               IF t = Module THEN SetupStart(DATABASE_URL, hasLocalConfig)
               ELSE "idle"]
    /\ probeArg = [t \in Tasks |-> IF t = Module THEN DATABASE_URL ELSE "none"]
    /\ result = [t \in Tasks |-> NoConnection]
    /\ events = [t \in Tasks |->
                   IF t = Module THEN StartEvents(DATABASE_URL) ELSE << >>]
    /\ db = [c \in Consumers |-> NoConnection]

\* DatabaseStorage.setup / getDb -> getDbConnection (storage.ts:141-170,
\* db.ts:119-124): return the cached handle, or start initializeDb.
GetDbConnection(c) ==
    /\ pc[c] = "idle"
    /\ db[c] = NoConnection
    /\ IF connection # NoConnection
       THEN /\ result' = [result EXCEPT ![c] = connection]
            /\ pc' = [pc EXCEPT ![c] = "assignDb"]
            /\ UNCHANGED <<probeArg, events>>
       ELSE /\ pc' = [pc EXCEPT ![c] = SetupStart(DATABASE_URL, hasLocalConfig)]
            /\ probeArg' = [probeArg EXCEPT ![c] = DATABASE_URL]
            /\ events' = [events EXCEPT ![c] = StartEvents(DATABASE_URL)]
            /\ UNCHANGED result
    /\ UNCHANGED <<connection, DATABASE_URL, hasLocalConfig, envBackup, db>>
    /\ UNCHANGED nonCtrlVars

\* testConnection(process.env.DATABASE_URL, true) resolves.
CloudProbeDone(t) ==
    /\ pc[t] = "probeCloud"
    /\ \E ok \in ProbeOutcomes(probeArg[t]) :
         LET next == AfterCloudProbe(ok, hasLocalConfig) IN
         /\ events' = [events EXCEPT
                         ![t] = Append(@, IF ok THEN "cloudOk" ELSE "cloudFail")]
         /\ pc' = [pc EXCEPT ![t] = next]
         /\ result' = [result EXCEPT
                         ![t] = IF next = "initAssign" THEN Handle(t, "cloud") ELSE @]
    /\ probeArg' = [probeArg EXCEPT ![t] = "none"]
    /\ UNCHANGED <<connection, DATABASE_URL, hasLocalConfig, envBackup, db>>
    /\ UNCHANGED nonCtrlVars

\* testConnection(localConnectionString, false) resolves (line 70).
LocalProbeDone(t) ==
    /\ pc[t] = "probeLocal"
    /\ \E ok \in BOOLEAN :
         LET next == AfterLocalProbe(ok) IN
         /\ events' = [events EXCEPT
                         ![t] = Append(@, IF ok THEN "localOk" ELSE "localFail")]
         /\ pc' = [pc EXCEPT ![t] = next]
         /\ result' = [result EXCEPT
                         ![t] = IF next = "initAssign" THEN Handle(t, "local") ELSE @]
    /\ UNCHANGED <<connection, DATABASE_URL, hasLocalConfig, envBackup, probeArg, db>>
    /\ UNCHANGED nonCtrlVars

\* `await setupLocalDatabase()` resolves (line 75) with true or false.
BootstrapDone(t) ==
    /\ pc[t] = "bootstrap"
    /\ \E ok \in BOOLEAN :
         /\ events' = [events EXCEPT
                         ![t] = Append(@, IF ok THEN "bootOk" ELSE "bootFail")]
         /\ pc' = [pc EXCEPT ![t] = AfterBootstrap(ok)]
    /\ UNCHANGED <<connection, DATABASE_URL, hasLocalConfig, envBackup, probeArg,
                   result, db>>
    /\ UNCHANGED nonCtrlVars

\* The second testConnection(localConnectionString, false) resolves (line 79).
LocalReprobeDone(t) ==
    /\ pc[t] = "reprobeLocal"
    /\ \E ok \in BOOLEAN :
         LET next == AfterLocalReprobe(ok) IN
         /\ events' = [events EXCEPT
                         ![t] = Append(@, IF ok THEN "reprobeOk" ELSE "reprobeFail")]
         /\ pc' = [pc EXCEPT ![t] = next]
         /\ result' = [result EXCEPT
                         ![t] = IF next = "initAssign" THEN Handle(t, "local") ELSE @]
    /\ UNCHANGED <<connection, DATABASE_URL, hasLocalConfig, envBackup, probeArg, db>>
    /\ UNCHANGED nonCtrlVars

\* initializeDb, line 110-111: `connection = await setupDatabase(); return connection`.
InitializeDbAssign(t) ==
    /\ pc[t] = "initAssign"
    /\ connection' = result[t]
    /\ pc' = [pc EXCEPT ![t] = IF t = Module THEN "done" ELSE "getAssign"]
    /\ UNCHANGED <<DATABASE_URL, hasLocalConfig, envBackup, probeArg, result,
                   events, db>>
    /\ UNCHANGED nonCtrlVars

\* getDbConnection, line 121-123: `connection = await initializeDb(); return connection`.
GetDbConnectionAssign(c) ==
    /\ pc[c] = "getAssign"
    /\ connection' = result[c]
    /\ pc' = [pc EXCEPT ![c] = "assignDb"]
    /\ UNCHANGED <<DATABASE_URL, hasLocalConfig, envBackup, probeArg, result,
                   events, db>>
    /\ UNCHANGED nonCtrlVars

\* DatabaseStorage.setup / getDb: `this.db = connection.db` (storage.ts:145, 166).
StorageAssign(c) ==
    /\ pc[c] = "assignDb"
    /\ db' = [db EXCEPT ![c] = result[c]]
    /\ pc' = [pc EXCEPT ![c] = "done"]
    /\ UNCHANGED <<connection, DATABASE_URL, hasLocalConfig, envBackup, probeArg,
                   result, events>>
    /\ UNCHANGED nonCtrlVars

\* .env.backup does not exist.
NoBackup == << >>

\* const backupContent = `DATABASE_URL=${process.env.DATABASE_URL}\n`
BackupContent(url) == <<"DATABASE_URL=", url, "\n">>

\* backupContent.match(/DATABASE_URL=(.+)/): the captured descriptor, or
\* "nomatch" ('Invalid backup format').
ParseBackup(content) ==
    IF Len(content) >= 2 /\ content[1] = "DATABASE_URL=" /\ content[2] # ""
    THEN content[2]
    ELSE "nomatch"

\* Return value of simulateCloudDatabaseFailure: true on both paths.
SimulateReturns(url) == TRUE

\* Return value of restoreCloudDatabaseConnection: false when there is no
\* backup file or it does not parse, true after a restore.
RestoreReturns(backup) == backup # NoBackup /\ ParseBackup(backup) # "nomatch"

\* injected: whether a backup was written never, once, or repeatedly since
\* the last restore; saved: the descriptor that was live before the first
\* of these injections.
NoHarness == [op |-> "none", ret |-> TRUE, injected |-> "never", saved |-> "none"]

\* simulateCloudDatabaseFailure (simulate-failure.ts:15-39).
SimulateCloudDatabaseFailure ==
    /\ IF DATABASE_URL = "none"
       THEN /\ UNCHANGED <<DATABASE_URL, envBackup>>
            /\ harness' = [harness EXCEPT !.op = "simulate",
                                          !.ret = SimulateReturns(DATABASE_URL)]
       ELSE /\ envBackup' = BackupContent(DATABASE_URL)
            /\ DATABASE_URL' = "invalid"
            /\ harness' = [op |-> "simulate",
                           ret |-> SimulateReturns(DATABASE_URL),
                           injected |-> IF harness.injected = "never"
                                        THEN "once" ELSE "repeatedly",
                           saved |-> IF harness.injected = "never"
                                     THEN DATABASE_URL ELSE harness.saved]
    /\ UNCHANGED <<connection, hasLocalConfig, pc, probeArg, result, events, db>>
    /\ UNCHANGED outsideCtrlVars

\* restoreCloudDatabaseConnection (simulate-failure.ts:45-74).
RestoreCloudDatabaseConnection ==
    /\ IF RestoreReturns(envBackup)
       THEN /\ DATABASE_URL' = ParseBackup(envBackup)
            /\ envBackup' = NoBackup
            /\ harness' = [op |-> "restore", ret |-> TRUE, injected |-> "never",
                           saved |-> "none"]
       ELSE /\ UNCHANGED <<DATABASE_URL, envBackup>>
            /\ harness' = [harness EXCEPT !.op = "restore", !.ret = FALSE]
    /\ UNCHANGED <<connection, hasLocalConfig, pc, probeArg, result, events, db>>
    /\ UNCHANGED outsideCtrlVars

CtrlNext ==
    \/ \E c \in Consumers : GetDbConnection(c)
    \/ \E t \in Tasks : CloudProbeDone(t)
    \/ \E t \in Tasks : LocalProbeDone(t)
    \/ \E t \in Tasks : BootstrapDone(t)
    \/ \E t \in Tasks : LocalReprobeDone(t)
    \/ \E t \in Tasks : InitializeDbAssign(t)
    \/ \E c \in Consumers : GetDbConnectionAssign(c)
    \/ \E c \in Consumers : StorageAssign(c)
    \/ SimulateCloudDatabaseFailure
    \/ RestoreCloudDatabaseConnection

(***************************************************************************)
(* Part II.  Storage contract: DatabaseStorage and MongoStorage            *)
(*                                                                         *)
(* Modelled entity types and, of each, the columns that the backends treat *)
(* differently: Group (name, description), Target (email, position),       *)
(* EmailTemplate (subject, html_content, text_content, description) and    *)
(* LandingPage (htmlContent, cssContent), each with its tenant reference   *)
(* and its update timestamp.                                               *)
(***************************************************************************)
\* Rows created in one behaviour, over all tables.
MaxCreates == 2
\* Largest reading of the wall clock (milliseconds, abstractly).
MaxClock == 1

Types == {"Group", "Target", "EmailTemplate", "LandingPage"}

\* organizations.id of the two tenants (rows of the organizations table).
Tenants == {1, 2}

Ids == 1..MaxCreates

\* JavaScript `null` and `undefined`.
NULL == "<null>"
UNDEF == "<undefined>"

\* `obj.f`: undefined when the property is absent.
Fld(obj, f) == IF f \in DOMAIN obj THEN obj[f] ELSE UNDEF

\* Attributes holding numbers (keys, references, timestamps); all others
\* hold strings, null or undefined.
NumericFields ==
    {"id", "_id", "organizationId", "organization_id", "organization",
     "groupId", "group", "updatedAt", "updated_at"}

\* `obj.f !== undefined`
Defined(obj, f) ==
    f \in DOMAIN obj /\ (f \in NumericFields \/ obj[f] # UNDEF)

\* JavaScript truthiness of the string values used here.
Truthy(v) == v \notin {"", NULL, UNDEF}

\* `a || b`
Or(a, b) == IF Truthy(a) THEN a ELSE b

\* drizzle insert: an undefined value leaves a nullable column NULL.
Col(v) == IF v = UNDEF THEN NULL ELSE v

\* Native names of the shared attributes, per backend and entity type.
IdField == IF backend = "pg" THEN "id" ELSE "_id"

OrgField(type) ==
    IF backend = "mongo" THEN "organization"
    ELSE IF type = "EmailTemplate" THEN "organization_id"
    ELSE "organizationId"

UpdatedField(type) ==
    IF backend = "pg" /\ type = "EmailTemplate" THEN "updated_at" ELSE "updatedAt"

GroupField == IF backend = "pg" THEN "groupId" ELSE "group"

\* Canonical (contract) name of the update timestamp: the relational one.
CanonicalUpdatedField(type) ==
    IF type = "EmailTemplate" THEN "updated_at" ELSE "updatedAt"

Exists(type, id) == \E r \in tables[type] : r[IdField] = id

RowOf(type, id) == CHOOSE r \in tables[type] : r[IdField] = id

\* ------------------------------------------------------------ DatabaseStorage
PgCreateGroup(id, organizationId, group, t) ==
    [id |-> id, name |-> Fld(group, "name"),
     description |-> Col(Fld(group, "description")),
     organizationId |-> organizationId, updatedAt |-> t]

PgCreateTarget(id, organizationId, groupId, target, t) ==
    [id |-> id, email |-> Fld(target, "email"),
     position |-> Col(Fld(target, "position")),
     groupId |-> groupId, organizationId |-> organizationId,
     updatedAt |-> t]

PgCreateEmailTemplate(id, organizationId, template, t) ==
    [id |-> id, subject |-> Fld(template, "subject"),
     html_content |-> Fld(template, "html_content"),
     text_content |-> Or(Fld(template, "text_content"), NULL),
     description |-> Or(Fld(template, "description"), NULL),
     organization_id |-> organizationId, updated_at |-> t]

\* createLandingPage copies name, description, htmlContent, redirectUrl,
\* pageType and thumbnail only: css_content keeps its column default.
PgCreateLandingPage(id, organizationId, page, t) ==
    [id |-> id, htmlContent |-> Fld(page, "htmlContent"),
     cssContent |-> NULL,
     organizationId |-> organizationId, updatedAt |-> t]

\* `.set({...data, updatedAt: new Date()})`: drizzle skips undefined values.
PgSpreadUpdate(row, data, t) ==
    [f \in DOMAIN row |->
       IF f = "updatedAt" THEN t
       ELSE IF Defined(data, f) THEN data[f]
       ELSE row[f]]

\* The object updateEmailTemplate passes to `.set(..)`.
PgTemplateSet(data, t) ==
    [subject |-> Fld(data, "subject"),
     html_content |-> Fld(data, "html_content"),
     text_content |-> Fld(data, "text_content"),
     description |-> Or(Fld(data, "description"), NULL),
     updated_at |-> t]

PgUpdateEmailTemplate(row, data, t) ==
    LET set == PgTemplateSet(data, t) IN
    [f \in DOMAIN row |->
       IF Defined(set, f) THEN set[f] ELSE row[f]]

\* NOT NULL columns: the UPDATE fails, the catch block returns undefined.
PgTemplateSetFails(data) ==
    Fld(data, "subject") = NULL \/ Fld(data, "html_content") = NULL

\* ---------------------------------------------------------------- MongoStorage
MongoCreateGroup(id, organizationId, group, t) ==
    [_id |-> id, name |-> Fld(group, "name"),
     description |-> Fld(group, "description"),
     organization |-> organizationId, updatedAt |-> t]

MongoCreateTarget(id, organizationId, groupId, target, t) ==
    [_id |-> id, email |-> Fld(target, "email"),
     position |-> Fld(target, "position"),
     group |-> groupId, organization |-> organizationId,
     updatedAt |-> t]

MongoCreateEmailTemplate(id, organizationId, template, t) ==
    [_id |-> id, subject |-> Fld(template, "subject"),
     htmlContent |-> Or(Fld(template, "html_content"), Fld(template, "htmlContent")),
     textContent |-> Or(Fld(template, "text_content"), Fld(template, "textContent")),
     description |-> Fld(template, "description"),
     organization |-> organizationId, updatedAt |-> t]

\* landingPageSchema has no cssContent path.
MongoCreateLandingPage(id, organizationId, page, t) ==
    [_id |-> id, htmlContent |-> Fld(page, "htmlContent"),
     organization |-> organizationId, updatedAt |-> t]

\* findByIdAndUpdate(id, {...data, updatedAt: new Date()}): a strict schema
\* drops the keys that are not paths of the document.
MongoSpreadUpdate(doc, data, t) ==
    [f \in DOMAIN doc |->
       IF f = "updatedAt" THEN t
       ELSE IF f # "_id" /\ Defined(data, f) THEN data[f]
       ELSE doc[f]]

\* templateData of updateEmailTemplate: only truthy inputs are copied.
MongoTemplateData(data, t) ==
    [subject |-> IF Truthy(Fld(data, "subject")) THEN data.subject ELSE UNDEF,
     htmlContent |-> Or(Or(Fld(data, "htmlContent"), Fld(data, "html_content")), UNDEF),
     textContent |-> Or(Or(Fld(data, "textContent"), Fld(data, "text_content")), UNDEF),
     description |-> IF Truthy(Fld(data, "description")) THEN data.description ELSE UNDEF,
     updatedAt |-> t]

MongoUpdateEmailTemplate(doc, data, t) ==
    LET templateData == MongoTemplateData(data, t) IN
    [f \in DOMAIN doc |->
       IF Defined(templateData, f) THEN templateData[f] ELSE doc[f]]

\* doc.toObject(): the paths that are set.
ToObject(doc) ==
    LET set == {f \in DOMAIN doc : Defined(doc, f)} IN [f \in set |-> doc[f]]

\* ------------------------------------------------------------------ contract
\* get<Entity>(id): the row, the document's toObject(), or undefined.
Get(type, id) ==
    IF ~Exists(type, id) THEN UNDEF
    ELSE IF backend = "pg" THEN RowOf(type, id)
    ELSE ToObject(RowOf(type, id))

\* listGroups / listEmailTemplates / listLandingPages (organizationId).
ListByTenant(type, organizationId) ==
    {r \in tables[type] : r[OrgField(type)] = organizationId}

\* listTargets(groupId).
ListTargets(groupId) ==
    {r \in tables["Target"] : r[GroupField] = groupId}

TotalCreated ==
    (nextId["Group"] - 1) + (nextId["Target"] - 1)
      + (nextId["EmailTemplate"] - 1) + (nextId["LandingPage"] - 1)

NewRow(type, organizationId, groupId, input, t) ==
    LET id == nextId[type] IN
    IF backend = "pg" THEN
      CASE type = "Group" -> PgCreateGroup(id, organizationId, input, t)
        [] type = "Target" -> PgCreateTarget(id, organizationId, groupId, input, t)
        [] type = "EmailTemplate" -> PgCreateEmailTemplate(id, organizationId, input, t)
        [] type = "LandingPage" -> PgCreateLandingPage(id, organizationId, input, t)
    ELSE
      CASE type = "Group" -> MongoCreateGroup(id, organizationId, input, t)
        [] type = "Target" -> MongoCreateTarget(id, organizationId, groupId, input, t)
        [] type = "EmailTemplate" -> MongoCreateEmailTemplate(id, organizationId, input, t)
        [] type = "LandingPage" -> MongoCreateLandingPage(id, organizationId, input, t)

UpdatedRow(type, row, data, t) ==
    IF type = "EmailTemplate" THEN
      IF backend = "pg" THEN PgUpdateEmailTemplate(row, data, t)
      ELSE MongoUpdateEmailTemplate(row, data, t)
    ELSE
      IF backend = "pg" THEN PgSpreadUpdate(row, data, t)
      ELSE MongoSpreadUpdate(row, data, t)

NoOp == [op |-> "none", type |-> "Group", id |-> 0, data |-> << >>,
         ok |-> TRUE, prior |-> 0]

Insert(type, organizationId, groupId, input) ==
    /\ TotalCreated < MaxCreates
    /\ tables' = [tables EXCEPT
                    ![type] = @ \cup {NewRow(type, organizationId, groupId, input, now)}]
    /\ nextId' = [nextId EXCEPT ![type] = @ + 1]
    /\ lastOp' = [op |-> "create", type |-> type, id |-> nextId[type],
                  data |-> input, ok |-> TRUE, prior |-> 0]
    /\ UNCHANGED <<backend, now>> /\ UNCHANGED nonStoreVars

\* Inputs of the create operations (canonical field names).
GroupInputs == {[name |-> "a"], [name |-> "a", description |-> "b"]}
TargetInputs == {[email |-> "a"], [email |-> "a", position |-> "b"]}
TemplateInputs ==
    {[subject |-> "a", html_content |-> "a"],
     [subject |-> "a", html_content |-> "a", text_content |-> "b", description |-> "b"]}
PageInputs == {[htmlContent |-> "a"], [htmlContent |-> "a", cssContent |-> "b"]}

\* Inputs of the update operations (canonical field names).
UpdateInputs(type) ==
    CASE type = "Group" -> {[name |-> "b"], [description |-> ""]}
      [] type = "Target" -> {[position |-> "b"]}
      [] type = "EmailTemplate" ->
           {[subject |-> "b"], [description |-> ""], [text_content |-> NULL]}
      [] type = "LandingPage" -> {[htmlContent |-> "b"], [cssContent |-> "b"]}

CreateGroup(organizationId, group) ==
    Insert("Group", organizationId, 0, group)

\* targets.group_id REFERENCES groups(id): PostgreSQL rejects an unknown
\* group and createTarget throws; mongoose stores any reference.
CreateTarget(organizationId, groupId, target) ==
    IF backend = "pg" /\ ~Exists("Group", groupId)
    THEN /\ lastOp' = [op |-> "create", type |-> "Target", id |-> 0,
                       data |-> target, ok |-> FALSE, prior |-> 0]
         /\ UNCHANGED <<backend, tables, nextId, now>> /\ UNCHANGED nonStoreVars
    ELSE Insert("Target", organizationId, groupId, target)

CreateEmailTemplate(organizationId, template) ==
    Insert("EmailTemplate", organizationId, 0, template)

CreateLandingPage(organizationId, page) ==
    Insert("LandingPage", organizationId, 0, page)

\* update<Entity>(id, data): the updated entity, or undefined.
Update(type, id, data) ==
    /\ IF Exists(type, id)
            /\ ~(backend = "pg" /\ type = "EmailTemplate" /\ PgTemplateSetFails(data))
       THEN LET row == RowOf(type, id) IN
            /\ tables' = [tables EXCEPT
                            ![type] = (@ \ {row}) \cup {UpdatedRow(type, row, data, now)}]
            /\ lastOp' = [op |-> "update", type |-> type, id |-> id, data |-> data,
                          ok |-> TRUE, prior |-> row[UpdatedField(type)]]
       ELSE /\ lastOp' = [op |-> "update", type |-> type, id |-> id, data |-> data,
                          ok |-> FALSE, prior |-> 0]
            /\ UNCHANGED tables
    /\ UNCHANGED <<backend, nextId, now>> /\ UNCHANGED nonStoreVars

UpdateGroup(id, data) == Update("Group", id, data)
UpdateTarget(id, data) == Update("Target", id, data)
UpdateEmailTemplate(id, data) == Update("EmailTemplate", id, data)
UpdateLandingPage(id, data) == Update("LandingPage", id, data)

\* What delete<Entity>(id) returns: DatabaseStorage `return true`,
\* MongoStorage `return !!result` of findByIdAndDelete.
DeleteResult(existed) ==
    IF backend = "pg" THEN TRUE ELSE existed

\* delete<Entity>(id).  In PostgreSQL, deleting a group also deletes its
\* targets (targets.group_id ... ON DELETE CASCADE).
Delete(type, id) ==
    /\ tables' =
         [ty \in Types |->
            IF ty = type THEN {r \in tables[ty] : r[IdField] # id}
            ELSE IF backend = "pg" /\ type = "Group" /\ ty = "Target"
                 THEN {r \in tables[ty] : r.groupId # id}
            ELSE tables[ty]]
    /\ lastOp' = [op |-> "delete", type |-> type, id |-> id, data |-> << >>,
                  ok |-> DeleteResult(Exists(type, id)), prior |-> 0]
    /\ UNCHANGED <<backend, nextId, now>> /\ UNCHANGED nonStoreVars

DeleteGroup(id) == Delete("Group", id)
DeleteTarget(id) == Delete("Target", id)
DeleteEmailTemplate(id) == Delete("EmailTemplate", id)
DeleteLandingPage(id) == Delete("LandingPage", id)

\* Time passes.
Tick ==
    /\ now < MaxClock
    /\ now' = now + 1
    /\ UNCHANGED <<backend, tables, nextId, lastOp>> /\ UNCHANGED nonStoreVars

StoreStart ==
    /\ tables = [ty \in Types |-> {}]
    /\ nextId = [ty \in Types |-> 1]
    /\ now = 0
    /\ lastOp = NoOp

StoreInit == backend \in {"pg", "mongo"} /\ StoreStart

StoreIdle == backend = "pg" /\ StoreStart

StoreNext ==
    \/ Tick
    \/ \E o \in Tenants, g \in GroupInputs : CreateGroup(o, g)
    \/ \E o \in Tenants, gid \in Ids, t \in TargetInputs : CreateTarget(o, gid, t)
    \/ \E o \in Tenants, t \in TemplateInputs : CreateEmailTemplate(o, t)
    \/ \E o \in Tenants, p \in PageInputs : CreateLandingPage(o, p)
    \/ \E id \in Ids, d \in UpdateInputs("Group") : UpdateGroup(id, d)
    \/ \E id \in Ids, d \in UpdateInputs("Target") : UpdateTarget(id, d)
    \/ \E id \in Ids, d \in UpdateInputs("EmailTemplate") : UpdateEmailTemplate(id, d)
    \/ \E id \in Ids, d \in UpdateInputs("LandingPage") : UpdateLandingPage(id, d)
    \/ \E id \in Ids : DeleteGroup(id)
    \/ \E id \in Ids : DeleteTarget(id)
    \/ \E id \in Ids : DeleteEmailTemplate(id)
    \/ \E id \in Ids : DeleteLandingPage(id)

(***************************************************************************)
(* Part III.  Operation boundary: missing tables and connection failures   *)
(*                                                                         *)
(* The education, training and compliance methods of DatabaseStorage run   *)
(* raw SQL on tables that the schema bootstrap does not create; the        *)
(* MongoStorage user reads stand for the try/catch form of every           *)
(* MongoStorage method.                                                    *)
(***************************************************************************)
OptionalTables ==
    {"education_content", "education_modules", "training_courses",
     "training_exams", "compliance_frameworks", "compliance_assessments"}

\* The methods whose query sits inside try/catch.
HasCatch(table) ==
    table \in {"education_content", "education_modules", "training_courses",
               "compliance_frameworks"}

\* Tables the list query reads (listComplianceAssessments joins the
\* frameworks).
ListReads(table) ==
    IF table = "compliance_assessments"
    THEN {"compliance_assessments", "compliance_frameworks"}
    ELSE {table}

\* What `pool.query` / a mongoose call does: reject with a connection error,
\* reject with the server's error, or resolve.
QueryOutcome(connOk, tablesRead, valid) ==
    IF ~connOk THEN "ConnectionError"
    ELSE IF ~(tablesRead \subseteq provisioned) THEN "UndefinedTable"
    ELSE IF ~valid THEN "ConstraintViolation"
    ELSE "ok"

\* list<Optional>(organizationId)
ListOutcome(table, q) ==
    IF q = "ok" THEN "rows"
    ELSE IF HasCatch(table) THEN "empty"
    ELSE q

\* create<Optional>(organizationId, ...)
CreateOutcome(table, q) ==
    IF q = "ok" THEN "row"
    ELSE IF HasCatch(table) THEN "FeatureNotAvailable"
    ELSE q

\* What a caller can tell apart: a value, or the error that was raised.
Raised == {"ConnectionError", "UndefinedTable", "ConstraintViolation",
           "FeatureNotAvailable", "BackendUnavailable"}

NoOut == [op |-> "none", table |-> "none", connOk |-> TRUE, missing |-> FALSE,
          res |-> "none", n |-> 0]

FeatRowCount == Cardinality(featRows)

\* SERIAL primary key of an optional table.
NextFeatId(table) == Cardinality({r \in featRows : r.table = table}) + 1

ListOptional(table, organizationId, connOk) ==
    LET q == QueryOutcome(connOk, ListReads(table), TRUE)
        res == ListOutcome(table, q)
        rows == {r \in featRows : r.table = table /\ r.organization_id = organizationId}
    IN /\ out' = [op |-> "list", table |-> table, connOk |-> connOk,
                  missing |-> ~(ListReads(table) \subseteq provisioned),
                  res |-> res,
                  n |-> IF res = "rows" THEN Cardinality(rows) ELSE 0]
       /\ UNCHANGED <<provisioned, featRows>>
       /\ UNCHANGED nonFailVars

CreateOptional(table, organizationId, connOk, valid) ==
    LET q == QueryOutcome(connOk, {table}, valid)
        res == CreateOutcome(table, q)
    IN /\ q = "ok" => FeatRowCount < MaxCreates
       /\ out' = [op |-> "create", table |-> table, connOk |-> connOk,
                  missing |-> table \notin provisioned, res |-> res, n |-> 0]
       /\ featRows' = IF q = "ok"
                      THEN featRows \cup {[table |-> table,
                                           organization_id |-> organizationId,
                                           id |-> NextFeatId(table)]}
                      ELSE featRows
       /\ UNCHANGED provisioned
       /\ UNCHANGED nonFailVars

\* The users collection of MongoStorage.
UserDocs == {[_id |-> 1, organization |-> 1]}

\* MongoStorage.getUser(id)
MongoGetUser(id, connOk) ==
    LET q == QueryOutcome(connOk, {}, TRUE)
        found == \E u \in UserDocs : u._id = id
    IN /\ out' = [op |-> "get", table |-> "users", connOk |-> connOk,
                  missing |-> FALSE,
                  res |-> IF q = "ok" /\ found THEN "row" ELSE "undefined",
                  n |-> 0]
       /\ UNCHANGED <<provisioned, featRows>>
       /\ UNCHANGED nonFailVars

\* MongoStorage.listUsers(organizationId)
MongoListUsers(organizationId, connOk) ==
    LET q == QueryOutcome(connOk, {}, TRUE)
        docs == {u \in UserDocs : u.organization = organizationId}
    IN /\ out' = [op |-> "list", table |-> "users", connOk |-> connOk,
                  missing |-> FALSE,
                  res |-> IF q = "ok" THEN "rows" ELSE "empty",
                  n |-> IF q = "ok" THEN Cardinality(docs) ELSE 0]
       /\ UNCHANGED <<provisioned, featRows>>
       /\ UNCHANGED nonFailVars

FailStart == featRows = {} /\ out = NoOut

\* Any subset of the optional tables may have been created by a migration.
FailInit == provisioned \in SUBSET OptionalTables /\ FailStart

FailIdle == provisioned = {} /\ FailStart

FailNext ==
    \/ \E t \in OptionalTables, o \in Tenants, c \in BOOLEAN : ListOptional(t, o, c)
    \/ \E t \in OptionalTables, o \in Tenants, c \in BOOLEAN, v \in BOOLEAN :
         CreateOptional(t, o, c, v)
    \/ \E id \in Ids, c \in BOOLEAN : MongoGetUser(id, c)
    \/ \E o \in Tenants, c \in BOOLEAN : MongoListUsers(o, c)

(***************************************************************************)
(* Part IV.  Local bootstrapper: setupLocalDatabase                        *)
(*                                                                         *)
(* Every awaited statement is one step; runs may overlap.  The local       *)
(* instance is reachable throughout.                                       *)
(***************************************************************************)
BootRuns == 1..NumBootRuns

BootTables == {"organizations", "users"}

Seeded == localTables = BootTables /\ orgCount > 0 /\ adminCount > 0

BootStep(r, from, to) ==
    /\ bpc[r] = from
    /\ bpc' = [bpc EXCEPT ![r] = to]

\* A call of setupLocalDatabase begins.
BootStart(r) ==
    /\ BootStep(r, "idle", "createOrganizations")
    /\ bstart' = [bstart EXCEPT ![r] = Seeded]
    /\ UNCHANGED <<localTables, orgCount, adminCount, bmade, bret>>
    /\ UNCHANGED nonBootVars

\* CREATE TABLE IF NOT EXISTS <table>
CreateTableIfNotExists(r, table) ==
    /\ localTables' = localTables \cup {table}
    /\ bmade' = [bmade EXCEPT ![r].tables =
                   IF table \in localTables THEN @ ELSE @ + 1]

BootCreateOrganizations(r) ==
    /\ BootStep(r, "createOrganizations", "createUsers")
    /\ CreateTableIfNotExists(r, "organizations")
    /\ UNCHANGED <<orgCount, adminCount, bstart, bret>>
    /\ UNCHANGED nonBootVars

BootCreateUsers(r) ==
    /\ BootStep(r, "createUsers", "selectOrgs")
    /\ CreateTableIfNotExists(r, "users")
    /\ UNCHANGED <<orgCount, adminCount, bstart, bret>>
    /\ UNCHANGED nonBootVars

AfterSelectOrgs_AlwaysInsert(n) == "insertOrg"

\* if (orgs.length === 0) insert the default organization
AfterSelectOrgs(n) == IF n = 0 THEN "insertOrg" ELSE "selectUsers"

\* const orgs = await db.select().from(organizations)
BootSelectOrgs(r) ==
    /\ BootStep(r, "selectOrgs", AfterSelectOrgs(orgCount))
    /\ UNCHANGED <<localTables, orgCount, adminCount, bstart, bmade, bret>>
    /\ UNCHANGED nonBootVars

\* await db.insert(organizations).values({name: 'Default Organization', ...})
BootInsertOrg(r) ==
    /\ BootStep(r, "insertOrg", "selectUsers")
    /\ orgCount' = orgCount + 1
    /\ bmade' = [bmade EXCEPT ![r].rows = @ + 1]
    /\ UNCHANGED <<localTables, adminCount, bstart, bret>>
    /\ UNCHANGED nonBootVars

\* if (users.length === 0) look up the default organization
AfterSelectUsers(n) == IF n = 0 THEN "selectDefaultOrg" ELSE "end"

\* const users = await db.select().from(users)
BootSelectUsers(r) ==
    /\ BootStep(r, "selectUsers", AfterSelectUsers(adminCount))
    /\ UNCHANGED <<localTables, orgCount, adminCount, bstart, bmade, bret>>
    /\ UNCHANGED nonBootVars

\* const [defaultOrg] = await db.select().from(organizations).limit(1)
BootSelectDefaultOrg(r) ==
    /\ BootStep(r, "selectDefaultOrg", IF orgCount > 0 THEN "insertAdmin" ELSE "end")
    /\ UNCHANGED <<localTables, orgCount, adminCount, bstart, bmade, bret>>
    /\ UNCHANGED nonBootVars

\* await db.insert(users).values({email: 'admin@example.com', ...}): users.email
\* is UNIQUE, so a second insert is rejected, the error is rethrown by the
\* inner catch and the outer catch returns false.
BootInsertAdmin(r) ==
    /\ bpc[r] = "insertAdmin"
    /\ IF adminCount = 0
       THEN /\ adminCount' = 1
            /\ bmade' = [bmade EXCEPT ![r].rows = @ + 1]
            /\ bpc' = [bpc EXCEPT ![r] = "end"]
            /\ UNCHANGED bret
       ELSE /\ bret' = [bret EXCEPT ![r] = "false"]
            /\ bpc' = [bpc EXCEPT ![r] = "done"]
            /\ UNCHANGED <<adminCount, bmade>>
    /\ UNCHANGED <<localTables, orgCount, bstart>>
    /\ UNCHANGED nonBootVars

\* await pool.end(); return true
BootEnd(r) ==
    /\ BootStep(r, "end", "done")
    /\ bret' = [bret EXCEPT ![r] = "true"]
    /\ UNCHANGED <<localTables, orgCount, adminCount, bstart, bmade>>
    /\ UNCHANGED nonBootVars

\* An empty local instance, no run started.
BootInit ==
    /\ localTables = {}
    /\ orgCount = 0
    /\ adminCount = 0
    /\ bpc = [r \in BootRuns |-> "idle"]
    /\ bstart = [r \in BootRuns |-> FALSE]
    /\ bmade = [r \in BootRuns |-> [tables |-> 0, rows |-> 0]]
    /\ bret = [r \in BootRuns |-> "none"]

BootNext ==
    \/ \E r \in BootRuns : BootStart(r)
    \/ \E r \in BootRuns : BootCreateOrganizations(r)
    \/ \E r \in BootRuns : BootCreateUsers(r)
    \/ \E r \in BootRuns : BootSelectOrgs(r)
    \/ \E r \in BootRuns : BootInsertOrg(r)
    \/ \E r \in BootRuns : BootSelectUsers(r)
    \/ \E r \in BootRuns : BootSelectDefaultOrg(r)
    \/ \E r \in BootRuns : BootInsertAdmin(r)
    \/ \E r \in BootRuns : BootEnd(r)

(***************************************************************************)
(* Part V.  Connection probe: testConnection                               *)
(*                                                                         *)
(* Each await is one step, and each step may fail: the pool constructor,   *)
(* testPool.connect(), client.query('SELECT 1'), testPool.end().           *)
(***************************************************************************)
Probes == 1..NumProbes

OnFailure_Rethrow(step) == "threw"

\* catch (error) { console.error(...); return false; }
OnFailure(step) == "false"

\* The call leaves its try block through the catch.
ProbeFails(p, step) ==
    /\ tfail' = [tfail EXCEPT ![p] = step]
    /\ tret' = [tret EXCEPT ![p] = OnFailure(step)]
    /\ tpc' = [tpc EXCEPT ![p] = "done"]

\* new NeonPool({connectionString}) / new PgPool({connectionString})
ProbeStart(p, isCloud, ok) ==
    /\ tpc[p] = "idle"
    /\ IF ok
       THEN /\ testPool' = [testPool EXCEPT ![p] = "open"]
            /\ tpc' = [tpc EXCEPT ![p] = "connect"]
            /\ UNCHANGED <<tfail, tret>>
       ELSE /\ ProbeFails(p, "pool")
            /\ UNCHANGED testPool
    /\ UNCHANGED client
    /\ UNCHANGED nonProbeVars

\* const client = await testPool.connect()
ProbeConnect(p, ok) ==
    /\ tpc[p] = "connect"
    /\ IF ok
       THEN /\ client' = [client EXCEPT ![p] = "acquired"]
            /\ tpc' = [tpc EXCEPT ![p] = "query"]
            /\ UNCHANGED <<tfail, tret>>
       ELSE /\ ProbeFails(p, "connect")
            /\ UNCHANGED client
    /\ UNCHANGED testPool
    /\ UNCHANGED nonProbeVars

\* try { await client.query('SELECT 1 as test') } finally { client.release() }
ProbeQuery(p, ok) ==
    /\ tpc[p] = "query"
    /\ client' = [client EXCEPT ![p] = "released"]
    /\ IF ok
       THEN /\ tpc' = [tpc EXCEPT ![p] = "end"]
            /\ UNCHANGED <<tfail, tret>>
       ELSE ProbeFails(p, "query")
    /\ UNCHANGED testPool
    /\ UNCHANGED nonProbeVars

\* await testPool.end(); return true
ProbeEnd(p, ok) ==
    /\ tpc[p] = "end"
    /\ IF ok
       THEN /\ testPool' = [testPool EXCEPT ![p] = "ended"]
            /\ tret' = [tret EXCEPT ![p] = "true"]
            /\ tpc' = [tpc EXCEPT ![p] = "done"]
            /\ UNCHANGED tfail
       ELSE /\ ProbeFails(p, "end")
            /\ UNCHANGED testPool
    /\ UNCHANGED client
    /\ UNCHANGED nonProbeVars

ProbeInit ==
    /\ tpc = [p \in Probes |-> "idle"]
    /\ testPool = [p \in Probes |-> "none"]
    /\ client = [p \in Probes |-> "none"]
    /\ tfail = [p \in Probes |-> "none"]
    /\ tret = [p \in Probes |-> "none"]

ProbeNext ==
    \/ \E p \in Probes, isCloud \in BOOLEAN, ok \in BOOLEAN : ProbeStart(p, isCloud, ok)
    \/ \E p \in Probes, ok \in BOOLEAN : ProbeConnect(p, ok)
    \/ \E p \in Probes, ok \in BOOLEAN : ProbeQuery(p, ok)
    \/ \E p \in Probes, ok \in BOOLEAN : ProbeEnd(p, ok)

(***************************************************************************)
(* Part VI.  Password reset (server/auth.ts)                               *)
(***************************************************************************)
\* Reset-password requests that present the one issued token.
NumResets == 2
Resets == 1..NumResets

\* What POST /api/forgot-password answers: no account (556-560), the mail
\* could not be sent (575-577), the mail was sent (579-581).
ForgotResponse(exists, sent) ==
    IF ~exists
    THEN [status |-> 200,
          body |-> "If an account exists with this email, a password reset link has been sent."]
    ELSE IF ~sent
    THEN [status |-> 500, body |-> "Failed to send password reset email"]
    ELSE [status |-> 200, body |-> "Password reset link has been sent to your email."]

NoForgot == [exists |-> FALSE, sent |-> FALSE, status |-> 0, body |-> "none"]

\* getPasswordResetToken(token): whether the issued row is returned.
\* DatabaseStorage selects token = ? AND used = false; MongoStorage runs
\* findOne({ token }) whatever the used flag is.
GetPasswordResetToken(b, used) ==
    IF b = "pg" THEN ~used ELSE TRUE

ResetStart ==
    [issued |-> FALSE, used |-> FALSE, expired |-> FALSE, password |-> 0,
     pc |-> [r \in Resets |-> "idle"],
     status |-> [r \in Resets |-> 0],
     late |-> [r \in Resets |-> FALSE],
     changed |-> [r \in Resets |-> FALSE],
     forgot |-> NoForgot]

\* POST /api/forgot-password for an email that does or does not belong to
\* an account; the token row is created before the mail is sent.
ForgotPassword(exists, sent) ==
    /\ reset.forgot = NoForgot
    /\ reset' = [reset EXCEPT
                   !.issued = exists,
                   !.forgot = [exists |-> exists, sent |-> sent,
                               status |-> ForgotResponse(exists, sent).status,
                               body |-> ForgotResponse(exists, sent).body]]
    /\ UNCHANGED nonResetVars

\* One hour has passed since the token was issued.
TokenExpires ==
    /\ reset.issued /\ ~reset.expired
    /\ reset' = [reset EXCEPT !.expired = TRUE]
    /\ UNCHANGED nonResetVars

\* POST /api/reset-password, lines 606-620: the token is verified, read from
\* the store and its expiry checked.  late: some request had already been
\* answered 200 when this one arrived.
ResetGetToken(r) ==
    /\ reset.issued /\ reset.pc[r] = "idle"
    /\ LET found == GetPasswordResetToken(reset.backend, reset.used)
           ok == found /\ ~reset.expired
       IN reset' = [reset EXCEPT
                      !.late[r] = \E q \in Resets : reset.status[q] = 200,
                      !.status[r] = IF ok THEN 0 ELSE 400,
                      !.pc[r] = IF ok THEN "updateUser" ELSE "done"]
    /\ UNCHANGED nonResetVars

\* lines 623-630: await storage.updateUser(user.id, { password }).
ResetUpdateUser(r) ==
    /\ reset.pc[r] = "updateUser"
    /\ reset' = [reset EXCEPT !.password = r, !.changed[r] = TRUE,
                              !.pc[r] = "markUsed"]
    /\ UNCHANGED nonResetVars

\* lines 633-635: await storage.markPasswordResetTokenUsed(resetToken.id),
\* then 200.
ResetMarkUsed(r) ==
    /\ reset.pc[r] = "markUsed"
    /\ reset' = [reset EXCEPT !.used = TRUE, !.status[r] = 200, !.pc[r] = "done"]
    /\ UNCHANGED nonResetVars

ResetInit ==
    \E b \in {"pg", "mongo"} :
       reset = [backend |-> b] @@ ResetStart

ResetIdle == reset = [backend |-> "pg"] @@ ResetStart

ResetNext ==
    \/ \E exists \in BOOLEAN, sent \in BOOLEAN : ForgotPassword(exists, sent)
    \/ TokenExpires
    \/ \E r \in Resets : ResetGetToken(r)
    \/ \E r \in Resets : ResetUpdateUser(r)
    \/ \E r \in Resets : ResetMarkUsed(r)

(***************************************************************************)
(* Part VII.  Campaign creation (server/routes.ts over DatabaseStorage)    *)
(***************************************************************************)
\* The four references of a campaign.  An id 1 or 2 names a stored entity
\* owned by that tenant; id 3 names nothing.
RefTypes == {"Group", "SmtpProfile", "EmailTemplate", "LandingPage"}
RefIds == 1..3
TenantOf(id) == IF id \in Tenants THEN id ELSE 0

\* What get<Entity>(id) of DatabaseStorage returns: the row under the
\* property names of its drizzle table (shared/schema.ts).  emailTemplates
\* declares the tenant column as `organization_id`, the others as
\* `organizationId`.
FetchRef(type, id) ==
    IF TenantOf(id) = 0 THEN [found |-> FALSE]
    ELSE IF type = "EmailTemplate"
    THEN [found |-> TRUE, id |-> id, organization_id |-> TenantOf(id)]
    ELSE [found |-> TRUE, id |-> id, organizationId |-> TenantOf(id)]

\* `!x || x.organizationId !== req.user.organizationId`: a property the row
\* does not have reads as undefined, which differs from every tenant id.
AccessDenied(row, userOrg) ==
    \/ ~row.found
    \/ "organizationId" \notin DOMAIN row
    \/ row.organizationId # userOrg

\* The status POST /api/campaigns answers (lines 799-817, 820-821).
CampaignStatus(userOrg, ref) ==
    IF \E type \in RefTypes : AccessDenied(FetchRef(type, ref[type]), userOrg)
    THEN 403 ELSE 201

NoRequest == [org |-> 0, ref |-> [type \in RefTypes |-> 0], status |-> 0]

\* POST /api/campaigns by a user of tenant userOrg.
PostCampaign(userOrg, ref) ==
    /\ LET status == CampaignStatus(userOrg, ref)
       IN campaigns' =
            [rows |-> IF status = 201
                      THEN campaigns.rows \cup {[org |-> userOrg, ref |-> ref]}
                      ELSE campaigns.rows,
             last |-> [org |-> userOrg, ref |-> ref, status |-> status]]
    /\ UNCHANGED nonCampaignVars

CampaignInit == campaigns = [rows |-> {}, last |-> NoRequest]

CampaignNext ==
    \E userOrg \in Tenants, ref \in [RefTypes -> RefIds] : PostCampaign(userOrg, ref)

(***************************************************************************)
(* Part VIII.  Deletes and their dependents                                *)
(***************************************************************************)
\* Ids of the groups, targets and campaigns of one tenant.
MaxCascadeId == 2
CascadeIds == 1..MaxCascadeId

\* targets and camps map an id to the group it references, 0 when no such
\* row exists; results holds <<campaign, target>> of the campaign results.
CascadeStart ==
    [groups |-> {},
     targets |-> [t \in CascadeIds |-> 0],
     camps |-> [c \in CascadeIds |-> 0],
     results |-> {},
     last |-> [op |-> "none", id |-> 0, ret |-> "none"]]

\* Referential integrity is enforced by PostgreSQL only (the REFERENCES
\* clauses of shared/schema.ts); the mongoose schemas declare none.
ForeignKeyHolds(b, present) == b = "mongo" \/ present

Returned(op, id, v) == [op |-> op, id |-> id, ret |-> v]

\* createGroup.
AddGroup(g) ==
    /\ g \notin cascade.groups
    /\ cascade' = [cascade EXCEPT !.groups = @ \cup {g},
                                  !.last = Returned("createGroup", g, "row")]
    /\ UNCHANGED nonCascadeVars

\* createTarget(organizationId, groupId, target).
AddTarget(t, g) ==
    /\ cascade.targets[t] = 0
    /\ IF ForeignKeyHolds(cascade.backend, g \in cascade.groups)
       THEN cascade' = [cascade EXCEPT !.targets[t] = g,
                                       !.last = Returned("createTarget", t, "row")]
       ELSE cascade' = [cascade EXCEPT !.last = Returned("createTarget", t, "threw")]
    /\ UNCHANGED nonCascadeVars

\* createCampaign with targetGroupId g.
AddCampaign(c, g) ==
    /\ cascade.camps[c] = 0
    /\ IF ForeignKeyHolds(cascade.backend, g \in cascade.groups)
       THEN cascade' = [cascade EXCEPT !.camps[c] = g,
                                       !.last = Returned("createCampaign", c, "row")]
       ELSE cascade' = [cascade EXCEPT !.last = Returned("createCampaign", c, "threw")]
    /\ UNCHANGED nonCascadeVars

\* createCampaignResult for campaign c and target t.
AddResult(c, t) ==
    /\ <<c, t>> \notin cascade.results
    /\ IF ForeignKeyHolds(cascade.backend,
                          cascade.camps[c] # 0 /\ cascade.targets[t] # 0)
       THEN cascade' = [cascade EXCEPT !.results = @ \cup {<<c, t>>},
                                       !.last = Returned("createCampaignResult", c, "row")]
       ELSE cascade' = [cascade EXCEPT !.last = Returned("createCampaignResult", c, "threw")]
    /\ UNCHANGED nonCascadeVars

\* deleteGroup(g).  DatabaseStorage: DELETE FROM groups; campaigns.
\* target_group_id is ON DELETE RESTRICT, targets.group_id ON DELETE CASCADE
\* and campaign_results.target_id ON DELETE CASCADE; `return true`.
\* MongoStorage: Group.findByIdAndDelete(id); `return !!result`.
CascadeDeleteGroup(g) ==
    /\ IF cascade.backend = "pg"
       THEN IF \E c \in CascadeIds : cascade.camps[c] = g
            THEN cascade' = [cascade EXCEPT !.last = Returned("deleteGroup", g, "threw")]
            ELSE cascade' =
                   [cascade EXCEPT
                      !.groups = @ \ {g},
                      !.targets = [t \in CascadeIds |-> IF @[t] = g THEN 0 ELSE @[t]],
                      !.results = {r \in @ : cascade.targets[r[2]] # g},
                      !.last = Returned("deleteGroup", g, "true")]
       ELSE cascade' =
              [cascade EXCEPT
                 !.groups = @ \ {g},
                 !.last = Returned("deleteGroup", g,
                                   IF g \in cascade.groups THEN "true" ELSE "false")]
    /\ UNCHANGED nonCascadeVars

\* deleteCampaign(c).  DatabaseStorage: DELETE FROM campaigns, with
\* campaign_results.campaign_id ON DELETE CASCADE; MongoStorage:
\* Campaign.findByIdAndDelete(id).
CascadeDeleteCampaign(c) ==
    /\ IF cascade.backend = "pg"
       THEN cascade' = [cascade EXCEPT
                          !.camps[c] = 0,
                          !.results = {r \in @ : r[1] # c},
                          !.last = Returned("deleteCampaign", c, "true")]
       ELSE cascade' = [cascade EXCEPT
                          !.camps[c] = 0,
                          !.last = Returned("deleteCampaign", c,
                                            IF cascade.camps[c] # 0 THEN "true" ELSE "false")]
    /\ UNCHANGED nonCascadeVars

CascadeInit ==
    \E b \in {"pg", "mongo"} : cascade = [backend |-> b] @@ CascadeStart

CascadeIdle == cascade = [backend |-> "pg"] @@ CascadeStart

CascadeNext ==
    \/ \E g \in CascadeIds : AddGroup(g)
    \/ \E t \in CascadeIds, g \in CascadeIds : AddTarget(t, g)
    \/ \E c \in CascadeIds, g \in CascadeIds : AddCampaign(c, g)
    \/ \E c \in CascadeIds, t \in CascadeIds : AddResult(c, t)
    \/ \E g \in CascadeIds : CascadeDeleteGroup(g)
    \/ \E c \in CascadeIds : CascadeDeleteCampaign(c)

(***************************************************************************)
(* Part IX.  Account lockout (server/auth.ts)                              *)
(***************************************************************************)
\* auth.ts:19, 21, 23, the two durations in minutes.
MAX_LOGIN_ATTEMPTS == 10
LOCKOUT_TIME == 30
RESET_WINDOW == 1440

\* Login requests for the one account that may be in flight together.
NumLogins == 2
Logins == 1..NumLogins
\* Long waits (longer than a lockout, longer than the reset window) in one
\* behaviour.
MaxWaits == 2

\* A null timestamp.
NoDate == -1

\* The lockout columns of a new users row (schema defaults).
NewAccount ==
    [failedLoginAttempts |-> 0, lastFailedLogin |-> NoDate,
     accountLocked |-> FALSE, accountLockedUntil |-> NoDate]

\* checkAccountLockStatus(user) at time t: what it answers and the update
\* it sends, if any.  user is the object the caller read earlier.
CheckAccountLockStatus(user, t) ==
    IF user.accountLocked /\ user.accountLockedUntil # NoDate
    THEN IF t < user.accountLockedUntil
         THEN [locked |-> TRUE, write |-> "none"]
         ELSE [locked |-> FALSE, write |-> "unlock"]
    ELSE IF /\ user.lastFailedLogin # NoDate /\ user.failedLoginAttempts > 0
            /\ t - user.lastFailedLogin > RESET_WINDOW
         THEN [locked |-> FALSE, write |-> "zero"]
         ELSE [locked |-> FALSE, write |-> "none"]

\* storage.updateUser(id, data) for the updates of checkAccountLockStatus.
ApplyCheckWrite(row, write) ==
    IF write = "unlock"
    THEN [row EXCEPT !.accountLocked = FALSE, !.accountLockedUntil = NoDate,
                     !.failedLoginAttempts = 0]
    ELSE IF write = "zero" THEN [row EXCEPT !.failedLoginAttempts = 0]
    ELSE row

\* recordFailedLoginAttempt(user) at time t: the row after its updateUser.
\* The new count is computed from the object the caller read.
RecordFailedLoginAttempt(row, user, t) ==
    LET newAttemptCount == user.failedLoginAttempts + 1
    IN IF newAttemptCount >= MAX_LOGIN_ATTEMPTS
       THEN [row EXCEPT !.failedLoginAttempts = newAttemptCount,
                        !.lastFailedLogin = t,
                        !.accountLocked = TRUE,
                        !.accountLockedUntil = t + LOCKOUT_TIME]
       ELSE [row EXCEPT !.failedLoginAttempts = newAttemptCount,
                        !.lastFailedLogin = t]

\* resetFailedLoginAttempts(userId).
ResetFailedLoginAttempts(row) == NewAccount

\* row: the account's columns; streak: failed attempts recorded since the
\* counter was last set to zero; per login its position, the user object it
\* read, whether its password is right, whether the lock had expired when it
\* arrived, and what it was answered.  overlap: the logins of the behaviour
\* arrive within minutes of each other and may overlap; otherwise they
\* arrive one after the other, with long waits in between.
LockStart ==
    [row |-> NewAccount, now |-> 0, waits |-> 0, streak |-> 0,
     passwordChanged |-> FALSE,
     pc |-> [l \in Logins |-> "idle"],
     user |-> [l \in Logins |-> NewAccount],
     correct |-> [l \in Logins |-> FALSE],
     expired |-> [l \in Logins |-> FALSE],
     answer |-> [l \in Logins |-> "none"]]

\* LocalStrategy verify, line 268: const user = await getUserByEmail(..).
LoginGetUser(l, correct) ==
    /\ lock.pc[l] \in {"idle", "done"}
    /\ lock.overlap \/ \A k \in Logins : lock.pc[k] \in {"idle", "done"}
    /\ lock' = [lock EXCEPT
                  !.pc[l] = "checkLock",
                  !.user[l] = lock.row,
                  !.correct[l] = correct,
                  !.expired[l] = /\ lock.row.accountLocked
                                 /\ lock.row.accountLockedUntil # NoDate
                                 /\ lock.now > lock.row.accountLockedUntil,
                  !.answer[l] = "none"]
    /\ UNCHANGED nonLockVars

\* lines 276-279: await checkAccountLockStatus(user).
LoginCheckLock(l) ==
    /\ lock.pc[l] = "checkLock"
    /\ LET status == CheckAccountLockStatus(lock.user[l], lock.now)
       IN lock' = [lock EXCEPT
                     !.row = ApplyCheckWrite(@, status.write),
                     !.streak = IF status.write = "none" THEN @ ELSE 0,
                     !.pc[l] = IF status.locked THEN "done" ELSE "verify",
                     !.user[l] = IF status.locked THEN NewAccount ELSE @,
                     !.correct[l] = IF status.locked THEN FALSE ELSE @,
                     !.answer[l] = IF status.locked THEN "locked" ELSE "none"]
    /\ UNCHANGED nonLockVars

\* lines 282-308: after await comparePasswords(..), the reset or the record
\* of the failed attempt, and the answer.
LoginVerify(l) ==
    /\ lock.pc[l] = "verify"
    /\ IF lock.correct[l]
       THEN lock' = [lock EXCEPT
                       !.row = ResetFailedLoginAttempts(@),
                       !.streak = 0,
                       !.pc[l] = "done", !.user[l] = NewAccount,
                       !.correct[l] = FALSE,
                       !.answer[l] = "ok"]
       ELSE lock' = [lock EXCEPT
                       !.row = RecordFailedLoginAttempt(@, lock.user[l], lock.now),
                       !.streak = @ + 1,
                       !.pc[l] = "done", !.user[l] = NewAccount,
                       !.correct[l] = FALSE,
                       !.answer[l] =
                          IF lock.user[l].failedLoginAttempts + 1 >= MAX_LOGIN_ATTEMPTS
                          THEN "lockedNow" ELSE "invalid"]
    /\ UNCHANGED nonLockVars

\* POST /api/change-password: updateUser(id, { password, updatedAt }).
ChangePassword ==
    /\ ~lock.passwordChanged
    /\ lock' = [lock EXCEPT !.passwordChanged = TRUE]
    /\ UNCHANGED nonLockVars

\* More than d minutes pass between two logins.
Wait(d) ==
    /\ ~lock.overlap /\ lock.waits < MaxWaits
    /\ \A l \in Logins : lock.pc[l] \in {"idle", "done"}
    /\ lock' = [lock EXCEPT !.now = @ + d + 1, !.waits = @ + 1]
    /\ UNCHANGED nonLockVars

LockInit ==
    \E overlap \in BOOLEAN : lock = [overlap |-> overlap] @@ LockStart

LockIdle == lock = [overlap |-> FALSE] @@ LockStart

LockNext ==
    \/ \E l \in Logins, correct \in BOOLEAN : LoginGetUser(l, correct)
    \/ \E l \in Logins : LoginCheckLock(l)
    \/ \E l \in Logins : LoginVerify(l)
    \/ ChangePassword
    \/ \E d \in {LOCKOUT_TIME, RESET_WINDOW} : Wait(d)

(***************************************************************************)
(* Part X.  Client session timeout (client/src/lib/session-manager.ts and  *)
(* components/session-timeout-wrapper.tsx)                                 *)
(***************************************************************************)
\* In seconds: SESSION_TIMEOUT, the warning period and the period of the
\* inactivity check of initSessionManager, and the wrapper's countdown.
SESSION_TIMEOUT == 600
WarningPeriod == 60
CheckPeriod == 10
CountdownStart == 60

\* inactive: Date.now() - lastActivityTime, which is also the age of
\* activityTimer (trackActivity sets both); counting: the wrapper's
\* one-second interval is running; loggedOut: window.location.href = '/auth'.
SessionInit ==
    session = [inactive |-> 0, warningEmitted |-> FALSE, showWarning |-> FALSE,
               countdown |-> CountdownStart, counting |-> FALSE,
               loggedOut |-> FALSE]

\* trackActivity(), as the listener of the activity events calls it.
TrackActivity ==
    /\ ~session.loggedOut
    /\ session' = [session EXCEPT !.inactive = 0, !.warningEmitted = FALSE]
    /\ UNCHANGED nonSessionVars

\* handleContinue: the dialog's "Continue Session".
HandleContinue ==
    /\ ~session.loggedOut /\ session.showWarning
    /\ session' = [session EXCEPT !.counting = FALSE, !.showWarning = FALSE,
                                  !.countdown = CountdownStart,
                                  !.inactive = 0, !.warningEmitted = FALSE]
    /\ UNCHANGED nonSessionVars

\* handleLogout: the dialog's "Logout".
HandleLogout ==
    /\ ~session.loggedOut /\ session.showWarning
    /\ session' = [session EXCEPT !.counting = FALSE, !.showWarning = FALSE,
                                  !.loggedOut = TRUE]
    /\ UNCHANGED nonSessionVars

\* CheckPeriod seconds pass without an event: the countdown interval ticks
\* (handleLogout when it runs out), activityTimer fires at SESSION_TIMEOUT,
\* and the inactivity check emits the warning, on which handleWarning
\* opens the dialog and starts the countdown interval.
SessionTick ==
    /\ ~session.loggedOut
    /\ LET inactive == session.inactive + CheckPeriod
           countdown == IF session.counting
                        THEN session.countdown - CheckPeriod
                        ELSE session.countdown
           ranOut == session.counting /\ countdown <= 0
           timedOut == inactive >= SESSION_TIMEOUT
           timeUntilTimeout == SESSION_TIMEOUT - inactive
           warn == /\ timeUntilTimeout <= WarningPeriod /\ timeUntilTimeout > 0
                   /\ ~session.warningEmitted /\ ~ranOut
       IN session' =
            [inactive |-> inactive,
             warningEmitted |-> session.warningEmitted \/ warn,
             showWarning |-> (session.showWarning \/ warn) /\ ~ranOut,
             countdown |-> IF countdown <= 0 THEN 0 ELSE countdown,
             counting |-> (session.counting \/ warn) /\ ~ranOut,
             loggedOut |-> ranOut \/ timedOut]
    /\ UNCHANGED nonSessionVars

SessionNext ==
    \/ TrackActivity
    \/ HandleContinue
    \/ HandleLogout
    \/ SessionTick

(***************************************************************************)
(* Part XI.  MongoDbConnection singleton (server/mongodb.ts)               *)
(***************************************************************************)
\* Callers of connect() that may be in flight together.
NumConnectors == 2
Connectors == 1..NumConnectors
\* In-memory servers that may be running at once.
MaxServers == 3

\* isConnected, hasServer: _isConnected, _mongoMemoryServer # null;
\* readyState: mongoose.connection.readyState (0 disconnected, 1 connected,
\* 2 connecting); servers: in-memory servers started and not stopped; per
\* caller, where its connect() stands and how it ended.
MongoInit ==
    mongo = [isConnected |-> FALSE, hasServer |-> FALSE, readyState |-> 0,
             servers |-> 0,
             pc |-> [c \in Connectors |-> "idle"],
             ret |-> [c \in Connectors |-> "none"]]

\* How a connect() that returns mongoose found the connection.
Established(readyState) ==
    IF readyState = 1 THEN "established" ELSE "notEstablished"

\* connect(), lines 54-60, reached with or without a create before it:
\* mongoose.connect is called only when readyState is 0.
ConnectOrReturn(m, c) ==
    IF m.readyState = 0
    THEN [m EXCEPT !.readyState = 2, !.pc[c] = "connecting"]
    ELSE [m EXCEPT !.isConnected = TRUE, !.pc[c] = "done",
                   !.ret[c] = Established(m.readyState)]

\* connect(), lines 33-48: up to the first await.
ConnectStart(c) ==
    /\ mongo.pc[c] \in {"idle", "done"}
    /\ mongo' =
         IF mongo.isConnected
         THEN [mongo EXCEPT !.pc[c] = "done",
                            !.ret[c] = Established(mongo.readyState)]
         ELSE IF mongo.readyState \in {1, 2}
         THEN [mongo EXCEPT !.isConnected = TRUE, !.pc[c] = "done",
                            !.ret[c] = Established(mongo.readyState)]
         ELSE IF ~mongo.hasServer
         THEN [mongo EXCEPT !.pc[c] = "creating", !.ret[c] = "none"]
         ELSE ConnectOrReturn([mongo EXCEPT !.ret[c] = "none"], c)
    /\ UNCHANGED nonMongoVars

\* lines 48-56: MongoMemoryServer.create() has resolved.
ConnectCreated(c) ==
    /\ mongo.pc[c] = "creating"
    /\ mongo.servers < MaxServers
    /\ mongo' = ConnectOrReturn([mongo EXCEPT !.hasServer = TRUE,
                                              !.servers = @ + 1], c)
    /\ UNCHANGED nonMongoVars

\* lines 55-64: mongoose.connect(uri) has resolved or rejected.
ConnectSettled(c, ok) ==
    /\ mongo.pc[c] = "connecting"
    /\ mongo' =
         IF ok
         THEN [mongo EXCEPT !.readyState = 1, !.isConnected = TRUE,
                            !.pc[c] = "done", !.ret[c] = "established"]
         ELSE [mongo EXCEPT !.readyState = 0, !.pc[c] = "done",
                            !.ret[c] = "threw"]
    /\ UNCHANGED nonMongoVars

\* disconnect(), called while no connect() is in flight: mongoose
\* disconnects and the server the singleton refers to is stopped.
Disconnect ==
    /\ mongo.isConnected
    /\ \A c \in Connectors : mongo.pc[c] \in {"idle", "done"}
    /\ mongo' = [mongo EXCEPT
                   !.readyState = 0, !.isConnected = FALSE,
                   !.hasServer = FALSE,
                   !.servers = IF mongo.hasServer THEN @ - 1 ELSE @]
    /\ UNCHANGED nonMongoVars

MongoNext ==
    \/ \E c \in Connectors : ConnectStart(c)
    \/ \E c \in Connectors : ConnectCreated(c)
    \/ \E c \in Connectors, ok \in BOOLEAN : ConnectSettled(c, ok)
    \/ Disconnect

(***************************************************************************)
(* Specifications                                                          *)
(***************************************************************************)
vars == <<coreVars, appVars>>

\* The application layer before any request (parts not yet started).
AppIdle ==
    /\ ResetIdle
    /\ CampaignInit /\ CascadeIdle /\ LockIdle
    /\ SessionInit /\ MongoInit

\* The controller, with an untouched store behind it.
Init ==
    /\ CtrlInit /\ harness = NoHarness /\ StoreIdle /\ FailIdle /\ BootInit
    /\ ProbeInit /\ AppIdle

Spec == Init /\ [][CtrlNext]_vars

\* The storage contract, on a backend chosen at start; the controller is
\* left where module loading put it in a fully configured environment.
CtrlIdle ==
    CtrlInit /\ DATABASE_URL = "orig" /\ hasLocalConfig /\ harness = NoHarness

StorageInit == StoreInit /\ CtrlIdle /\ FailIdle /\ BootInit /\ ProbeInit /\ AppIdle

StorageSpec == StorageInit /\ [][StoreNext]_vars

\* The operation boundary, over any set of provisioned optional tables.
FailureInit == FailInit /\ CtrlIdle /\ StoreIdle /\ BootInit /\ ProbeInit /\ AppIdle

FailureSpec == FailureInit /\ [][FailNext]_vars

\* Runs of the local bootstrapper on one local instance.
BootstrapInit == BootInit /\ CtrlIdle /\ StoreIdle /\ FailIdle /\ ProbeInit /\ AppIdle

BootstrapSpec == BootstrapInit /\ [][BootNext]_vars

\* Calls of the connection probe.
ProbeSpecInit == ProbeInit /\ CtrlIdle /\ StoreIdle /\ FailIdle /\ BootInit /\ AppIdle

ProbeSpec == ProbeSpecInit /\ [][ProbeNext]_vars

\* Everything below the application layer, at rest.
CoreIdle == CtrlIdle /\ StoreIdle /\ FailIdle /\ BootInit /\ ProbeInit

\* Password reset requests on either backend.
ResetSpecInit ==
    /\ ResetInit /\ CoreIdle
    /\ CampaignInit /\ CascadeIdle /\ LockIdle
    /\ SessionInit /\ MongoInit

ResetSpec == ResetSpecInit /\ [][ResetNext]_vars

\* Campaign creation requests.
CampaignSpecInit ==
    /\ CampaignInit /\ CoreIdle /\ ResetIdle
    /\ CascadeIdle /\ LockIdle /\ SessionInit /\ MongoInit

CampaignSpec == CampaignSpecInit /\ [][CampaignNext]_vars

\* Creates and deletes of groups, targets, campaigns and results.
CascadeSpecInit ==
    /\ CascadeInit /\ CoreIdle /\ ResetIdle /\ CampaignInit
    /\ LockIdle /\ SessionInit /\ MongoInit

CascadeSpec == CascadeSpecInit /\ [][CascadeNext]_vars

\* Logins to one account.
LockSpecInit ==
    /\ LockInit /\ CoreIdle /\ ResetIdle /\ CampaignInit /\ CascadeIdle
    /\ SessionInit /\ MongoInit

LockSpec == LockSpecInit /\ [][LockNext]_vars

\* The session manager of one browser tab.
SessionSpecInit ==
    /\ SessionInit /\ CoreIdle /\ ResetIdle /\ CampaignInit /\ CascadeIdle
    /\ LockIdle /\ MongoInit

SessionSpec == SessionSpecInit /\ [][SessionNext]_vars

\* Callers of the MongoDbConnection singleton.
MongoSpecInit ==
    /\ MongoInit /\ CoreIdle /\ ResetIdle /\ CampaignInit /\ CascadeIdle
    /\ LockIdle /\ SessionInit

MongoSpec == MongoSpecInit /\ [][MongoNext]_vars

(***************************************************************************)
(* Properties of the controller                                            *)
(***************************************************************************)
Has(t, e) == \E i \in 1..Len(events[t]) : events[t][i] = e

HasAny(t, es) == \E i \in 1..Len(events[t]) : events[t][i] \in es

Count(t, es) == Cardinality({i \in 1..Len(events[t]) : events[t][i] \in es})

LocalProbeEvents == {"localOk", "localFail", "reprobeOk", "reprobeFail"}
BootstrapEvents == {"bootOk", "bootFail"}

\* C1: while the controller is uninitialized, concurrent requests for the
\* handle (the module's own initializeDb() included) share one
\* probe/bootstrap sequence: at most one setupDatabase run is in progress,
\* the bootstrapper is run by at most one caller, and all callers that have
\* received a handle have received the same one.
C1_SingleInitialization ==
    /\ Cardinality({t \in Tasks : pc[t] \in SetupPcs}) <= 1
    /\ Cardinality({t \in Tasks : HasAny(t, BootstrapEvents)}) <= 1
    /\ \A s, t \in Tasks :
         (pc[s] \in ReturnedPcs /\ pc[t] \in ReturnedPcs) => result[s] = result[t]

\* C2: a setupDatabase run whose remote probe succeeded ends Ready(remote)
\* and neither probes the local descriptor nor bootstraps; the local
\* descriptor is probed only when no remote descriptor was configured or the
\* remote probe failed; a successful first local probe ends Ready(local)
\* without bootstrapping.
C2_RemotePreferred ==
    \A t \in Tasks :
      /\ Has(t, "cloudOk") =>
           /\ pc[t] \in ReturnedPcs
           /\ result[t] = Handle(t, "cloud")
           /\ ~HasAny(t, LocalProbeEvents \cup BootstrapEvents)
      /\ (pc[t] \in {"probeLocal", "reprobeLocal"} \/ HasAny(t, LocalProbeEvents)) =>
           (Has(t, "noRemote") \/ Has(t, "cloudFail"))
      /\ Has(t, "localOk") =>
           /\ pc[t] \in ReturnedPcs
           /\ result[t] = Handle(t, "local")
           /\ ~HasAny(t, BootstrapEvents)

\* C2 witness: one run ended Ready(remote) after a successful remote probe,
\* and another ended Ready(local) on its first local probe after the remote
\* probe failed.
C2_Witness ==
    \E s, t \in Tasks :
      /\ pc[s] = "done" /\ events[s] = <<"cloudOk">> /\ result[s].type = "cloud"
      /\ pc[t] = "done" /\ events[t] = <<"cloudFail", "localOk">>
      /\ result[t].type = "local"

\* C3 (as stated): when the remote is absent or unreachable and the first
\* local probe fails, the run invokes the bootstrapper exactly once and then
\* re-probes the local descriptor; Ready(local) if the re-probe succeeds,
\* Fatal otherwise, and a Fatal run caches and returns no handle.
C3_AlwaysReprobes ==
    \A t \in Tasks :
      (Has(t, "localFail") /\ pc[t] \notin {"bootstrap", "reprobeLocal"}) =>
        /\ Count(t, BootstrapEvents) = 1
        /\ Count(t, {"reprobeOk", "reprobeFail"}) = 1
        /\ Has(t, "reprobeOk") =>
             (pc[t] \in ReturnedPcs /\ result[t] = Handle(t, "local"))
        /\ Has(t, "reprobeFail") => pc[t] = "failed"
        /\ pc[t] = "failed" =>
             /\ result[t] = NoConnection
             /\ connection.by # t
             /\ \A c \in Consumers : db[c].by # t

\* C3 (amended): when the first local probe of a run fails, the run invokes
\* the bootstrapper exactly once; it re-probes the local descriptor exactly
\* when the bootstrapper returned true; it ends Ready(local) exactly when
\* that re-probe succeeds and Fatal when the bootstrapper returned false or
\* the re-probe failed; a run that ended Fatal has cached no handle and
\* returned none.
C3_BootstrapThenReprobe ==
    \A t \in Tasks :
      Has(t, "localFail") =>
        /\ Count(t, BootstrapEvents) = (IF pc[t] = "bootstrap" THEN 0 ELSE 1)
        /\ (pc[t] = "reprobeLocal" \/ HasAny(t, {"reprobeOk", "reprobeFail"}))
             <=> Has(t, "bootOk")
        /\ Count(t, {"reprobeOk", "reprobeFail"}) <= 1
        /\ pc[t] \in ReturnedPcs <=> Has(t, "reprobeOk")
        /\ pc[t] \in ReturnedPcs => result[t] = Handle(t, "local")
        /\ pc[t] = "failed" <=> (Has(t, "bootFail") \/ Has(t, "reprobeFail"))
        /\ pc[t] = "failed" =>
             /\ result[t] = NoConnection
             /\ connection.by # t
             /\ \A c \in Consumers : db[c].by # t

\* C3 witness: one run bootstrapped, re-probed successfully and ended
\* Ready(local); another run's bootstrapper returned false and it ended Fatal.
C3_Witness ==
    \E s, t \in Tasks :
      /\ pc[s] = "done" /\ Has(s, "localFail") /\ Has(s, "bootOk")
      /\ Has(s, "reprobeOk") /\ result[s].type = "local"
      /\ pc[t] = "failed" /\ Has(t, "localFail") /\ Has(t, "bootFail")

\* C4: once a handle is cached (Ready), the cached handle never changes (so
\* neither does its kind), and every request that starts afterwards gets
\* that handle without starting a probe or a bootstrap, whatever the harness
\* does in between.
C4_CachedHandleStable ==
    [][connection # NoConnection =>
         /\ connection' = connection
         /\ \A c \in Consumers :
              (pc[c] = "idle" /\ pc'[c] # "idle") =>
                 (pc'[c] = "assignDb" /\ result'[c] = connection)]_vars

\* Initialization has ended in Fatal: a run has thrown, nothing is cached
\* and no other run is in progress.
FatalEnded ==
    /\ connection = NoConnection
    /\ \E t \in Tasks : pc[t] = "failed"
    /\ \A t \in Tasks : pc[t] \in {"idle", "failed"}

\* C5: after initialization has ended in Fatal, a later request for the
\* handle fails at once: it starts no probe and no bootstrap.
C5_NoRetryAfterFatal ==
    [][\A c \in Consumers :
         (FatalEnded /\ pc[c] = "idle" /\ pc'[c] # "idle") => pc'[c] = "failed"]_vars

\* C6: every DatabaseStorage instance that holds a handle holds the handle
\* the controller has cached, so all consumers share one connection.
C6_SingleActiveHandle ==
    \A c \in Consumers : db[c] # NoConnection => db[c] = connection

\* C7: delete is idempotent on every backend: a delete of an id that does
\* not exist (for instance the second of two deletes of the same id)
\* returns true, and the id is absent afterwards.
C7_DeleteIdempotent ==
    lastOp.op = "delete" => (lastOp.ok /\ ~Exists(lastOp.type, lastOp.id))

\* The targets a tenant is served: listTargets over the groups that
\* listGroups returns for it.
TenantTargets(organizationId) ==
    UNION {ListTargets(g[IdField]) : g \in ListByTenant("Group", organizationId)}

\* C8: on both backends a list scoped to tenant T1 never returns a row that
\* was created under another tenant T2.
C8_TenantIsolation ==
    \A T1 \in Tenants :
      /\ \A ty \in Types \ {"Target"} :
           \A r \in ListByTenant(ty, T1) : r[OrgField(ty)] = T1
      /\ \A r \in TenantTargets(T1) : r[OrgField("Target")] = T1

\* C9: whichever backend is active, get(createdId) after a create returns a
\* record that carries every field of the create input, unchanged, under
\* its canonical name.
C9_CreateGetRoundTrip ==
    (lastOp.op = "create" /\ lastOp.ok) =>
       /\ Exists(lastOp.type, lastOp.id)
       /\ \A f \in DOMAIN lastOp.data :
            Fld(Get(lastOp.type, lastOp.id), f) = lastOp.data[f]

\* C10: on both backends, update(id, {field: v}) of an existing id followed
\* by get(id) returns a record with field = v and with an updatedAt that is
\* strictly greater than the one the record had before the update.
C10_UpdateThenGet ==
    (lastOp.op = "update" /\ lastOp.ok) =>
       LET r == Get(lastOp.type, lastOp.id)
           at == CanonicalUpdatedField(lastOp.type)
       IN /\ \A f \in DOMAIN lastOp.data : Fld(r, f) = lastOp.data[f]
          /\ at \in DOMAIN r
          /\ r[at] > lastOp.prior

\* Name under which the active backend stores a canonical attribute.
NativeName(f) ==
    IF backend = "pg" THEN f
    ELSE CASE f = "html_content" -> "htmlContent"
           [] f = "text_content" -> "textContent"
           [] OTHER -> f

\* C11: an update is a merge on both backends: every stored attribute that
\* the update does not supply, other than the update timestamp, keeps the
\* value it had before the update.
C11_UpdateIsMerge ==
    [][(lastOp'.op = "update" /\ lastOp'.ok) =>
         LET ty == lastOp'.type
             old == CHOOSE r \in tables[ty] : r[IdField] = lastOp'.id
             new == CHOOSE r \in tables'[ty] : r[IdField] = lastOp'.id
             supplied == {NativeName(f) : f \in DOMAIN lastOp'.data}
         IN \A f \in DOMAIN old \ (supplied \cup {UpdatedField(ty)}) :
              new[f] = old[f]]_vars

\* C12: for every optional entity type whose table does not exist, list
\* returns an empty sequence and never raises.
C12_ListOfMissingTableIsEmpty ==
    (out.op = "list" /\ out.missing /\ out.connOk) =>
       (out.res = "empty" /\ out.n = 0)

\* C13: create on an entity type whose table does not exist raises the
\* feature-not-provisioned error, and that error is raised for no other
\* reason than a missing table.
C13_CreateRaisesFeatureNotProvisioned ==
    /\ (out.op = "create" /\ out.missing /\ out.connOk) =>
          out.res = "FeatureNotAvailable"
    /\ out.res = "FeatureNotAvailable" => (out.op = "create" /\ out.missing)

\* C14: when the connection fails during a storage operation, the operation
\* raises, and its outcome is not that of a get that found nothing, of an
\* empty list, or of a feature that is not provisioned.
C14_ConnectionFailureIsDistinct ==
    (out.op # "none" /\ ~out.connOk) =>
       (out.res \in Raised /\ out.res \notin {"FeatureNotAvailable"})

C16_ConcurrentBootstrapSafe ==
    (\A r \in BootRuns : bpc[r] = "done") =>
       /\ orgCount = 1
       /\ adminCount = 1
       /\ \A r \in BootRuns : bret[r] = "true"

\* C17: the connection probe never throws to its caller: a failure of the
\* pool constructor, of connect, of the round-trip query or of end makes it
\* return false, and it returns true only when no step failed.
C17_ProbeNeverThrows ==
    \A p \in Probes :
       /\ tret[p] # "threw"
       /\ tpc[p] = "done" =>
            /\ tfail[p] # "none" => tret[p] = "false"
            /\ tfail[p] = "none" => tret[p] = "true"

\* One call has returned false after its query failed, another after its
\* connect failed.
C17_Witness ==
    \E p, q \in Probes :
       /\ tpc[p] = "done" /\ tfail[p] = "query" /\ tret[p] = "false"
       /\ tpc[q] = "done" /\ tfail[q] = "connect" /\ tret[q] = "false"

\* C18: when the probe has returned, on whatever path, every client it
\* acquired has been released and every pool it created has been ended.
C18_ProbeLeaksNothing ==
    \A p \in Probes :
       tpc[p] = "done" =>
          /\ client[p] \in {"none", "released"}
          /\ testPool[p] \in {"none", "ended"}

\* C19: each harness operation is a no-op that returns success when the
\* system is already in its target state: simulate with no remote
\* descriptor configured, restore with no backup present.
C19_HarnessNoOpsSucceed ==
    [][/\ (SimulateCloudDatabaseFailure /\ DATABASE_URL = "none") =>
            (harness'.ret /\ UNCHANGED <<DATABASE_URL, envBackup>>)
       /\ (RestoreCloudDatabaseConnection /\ envBackup = NoBackup) =>
            (harness'.ret /\ UNCHANGED <<DATABASE_URL, envBackup>>)]_vars

\* C20: after one or more injections, one restore brings back the
\* descriptor that was configured before the first injection, and no backup
\* remains.
C20_RoundTripAfterInjections ==
    [][(RestoreCloudDatabaseConnection /\ harness.injected # "never") =>
          (DATABASE_URL' = harness.saved /\ envBackup' = NoBackup)]_vars

(***************************************************************************)
(* Properties of the application layer                                     *)
(***************************************************************************)
\* C21: once a reset-password request has succeeded with a token, every
\* later request presenting the same token is rejected and leaves the
\* password unchanged.
C21_TokenSingleUse ==
    \A r \in Resets :
       reset.late[r] => (~reset.changed[r] /\ reset.status[r] # 200)

\* C28: of the concurrent reset-password requests that present the same
\* valid, unused token, at most one changes the password and reports
\* success.
C28_AtMostOneResetSucceeds ==
    /\ Cardinality({r \in Resets : reset.changed[r]}) <= 1
    /\ Cardinality({r \in Resets : reset.status[r] = 200}) <= 1

\* C30: the status and body answered to a forgot-password request are those
\* the same request would have got had the email's account existence been
\* the opposite.
C30_ForgotResponseUniform ==
    reset.forgot # NoForgot =>
       LET other == ForgotResponse(~reset.forgot.exists, reset.forgot.sent)
       IN reset.forgot.status = other.status /\ reset.forgot.body = other.body

\* C22: POST /api/campaigns stores a campaign if and only if the referenced
\* Group, SmtpProfile, EmailTemplate and LandingPage all exist and all
\* belong to the caller's tenant.
C22_CampaignIffOwned ==
    LET last == campaigns.last
        owned == \A type \in RefTypes : TenantOf(last.ref[type]) = last.org
        stored == [org |-> last.org, ref |-> last.ref] \in campaigns.rows
    IN last # NoRequest =>
          /\ (last.status = 201) <=> owned
          /\ stored <=> owned

\* C23: after deleteGroup(g) has returned true no target that references g
\* remains, and after deleteCampaign(c) has returned true no campaign
\* result that references c remains.
C23_DeletesCascade ==
    LET last == cascade.last
    IN /\ (last.op = "deleteGroup" /\ last.ret = "true") =>
             \A t \in CascadeIds : cascade.targets[t] # last.id
       /\ (last.op = "deleteCampaign" /\ last.ret = "true") =>
             \A r \in cascade.results : r[1] # last.id

\* C24: accountLocked implies a non-null accountLockedUntil, and a login
\* attempt made after accountLockedUntil has passed is not refused as
\* locked and clears the lock state (the account is locked when the attempt
\* is over only if ten failed attempts were recorded since the counter was
\* reset).
C24_LockHasExpiryAndClears ==
    /\ lock.row.accountLocked => lock.row.accountLockedUntil # NoDate
    /\ \A l \in Logins :
          (lock.pc[l] = "done" /\ lock.expired[l]) =>
             /\ lock.answer[l] \notin {"locked", "lockedNow"}
             /\ lock.streak < MAX_LOGIN_ATTEMPTS => ~lock.row.accountLocked

\* C26: an account is locked only when the failed attempts recorded since
\* the last reset of its counter have reached MAX_LOGIN_ATTEMPTS.
C26_LockedOnlyAfterMaxAttempts ==
    [][(lock'.row.accountLocked /\ ~lock.row.accountLocked) =>
          lock'.streak >= MAX_LOGIN_ATTEMPTS]_vars

\* C27: no failed attempt is lost: the stored counter is at least the
\* number of failed attempts recorded since it was reset, and the account
\* is locked once ten have been recorded.
C27_NoAttemptLost ==
    /\ lock.row.failedLoginAttempts >= lock.streak
    /\ lock.streak >= MAX_LOGIN_ATTEMPTS => lock.row.accountLocked

\* C25: the client logs the user out, other than on the user's own
\* "Logout", only after SESSION_TIMEOUT without tracked activity: any
\* tracked activity, also during the warning countdown, postpones the
\* automatic logout by a full timeout period.
C25_LogoutOnlyAfterInactivity ==
    [][(session'.loggedOut /\ SessionTick) =>
          session'.inactive >= SESSION_TIMEOUT]_vars

\* C29: however calls of connect() interleave, at most one in-memory
\* server is created, and connect() returns only once the mongoose
\* connection is established.
C29_OneServerAndEstablished ==
    /\ mongo.servers <= 1
    /\ \A c \in Connectors : mongo.ret[c] # "notEstablished"

====
